---- MODULE Spec2Model ----
(***************************************************************************)
(* EWAH compressed bitmap (package ewah, src/ewah/ewah.go).                *)
(*                                                                         *)
(* A 64-bit word is modelled as the set of its one-bit positions, a subset *)
(* of 0..63: AND, OR, XOR and complement of words are set operations and   *)
(* the population count is the cardinality.  A marker word is the same     *)
(* kind of value; its three fields are decoded from, and written to, the   *)
(* bit positions of the layout (bit 0 running bit, bits 1..32 running      *)
(* length, bits 33..63 number of literal words).  A buffer is a sequence   *)
(* of words whose length is the capacity of the Go slice; Go index k is    *)
(* element k + 1 of the sequence.                                          *)
(*                                                                         *)
(* TLC's integers are 32 bits wide.  Field values and sums that exceed     *)
(* MaxModelInt are clamped to it (ClampAdd, getRunningLength); such         *)
(* values are only compared with word indices, which are far smaller.      *)
(***************************************************************************)
EXTENDS Integers, Sequences, FiniteSets, TLC

\* const wordInBits int64 = 64
wordInBits == 64

\* math.MaxInt32
MaxInt32 == 2147483647

\* the largest integer of the model's arithmetic
MaxModelInt == MaxInt32

\* LargestLiteralCount = 2^31 - 1 (the 31-bit field numberOfLiteralWords)
LargestLiteralCount == 2147483647

\* make([]int64, 4) in New
defaultBufferSize == 4

\* the all-zeros and the all-ones word
ZeroWord == {}
AllOnes == 0 .. 63

\* ^1: every bit but bit 0
NotOne == 1 .. 63

\* sums that stay inside the model's integers
ClampAdd(x, y) == IF x > MaxModelInt - y THEN MaxModelInt ELSE x + y

Min(x, y) == IF x < y THEN x ELSE y
Max(x, y) == IF x > y THEN x ELSE y

\* floor division by 64 as Go's / on a non-negative int64
WordOf(i) == i \div wordInBits

(***************************************************************************)
(* Bit fields of a word.                                                   *)
(***************************************************************************)
RECURSIVE SumPow(_, _)
\* the number whose binary digits are the positions of S, shifted down by lo
SumPow(S, lo) ==
    IF S = {} THEN 0
    ELSE LET k == CHOOSE x \in S : TRUE
         IN  2 ^ (k - lo) + SumPow(S \ {k}, lo)

\* the bit positions 0..30 of a number 0 <= n < 2^31
BitsOf(n) == {k \in 0 .. 30 : (n \div (2 ^ k)) % 2 = 1}

\* the low 32 bits of an integer in two's complement (n >= -2^31)
Bits32(n) ==
    IF n >= 0 THEN BitsOf(n)
    ELSE BitsOf((n + 1) + MaxModelInt) \cup {31}

\* the low 31 bits of an integer in two's complement
Bits31(n) ==
    IF n >= 0 THEN BitsOf(n)
    ELSE BitsOf((n + 1) + MaxModelInt)

(***************************************************************************)
(* runningLengthWord: a view of the marker word w.                         *)
(***************************************************************************)
getRunningBit(w) == 0 \in w

\* bits 1..32; a value with bit 32 set does not fit and reads as MaxModelInt
getRunningLength(w) ==
    IF 32 \in w THEN MaxModelInt ELSE SumPow(w \cap (1 .. 31), 1)

\* runningLength = LargestRunningLengthCount = 2^32 - 1: all 32 bits set
isLargestRunningLength(w) == (1 .. 32) \subseteq w

\* bits 33..63
getNumberOfLiteralWords(w) == SumPow(w \cap (33 .. 63), 33)

\* size(): runningLength + numberOfLiteralWords
rlwSize(w) == ClampAdd(getRunningLength(w), getNumberOfLiteralWords(w))

setRunningBit(w, b) == IF b THEN w \cup {0} ELSE w \ {0}

setRunningLength(w, n) == (w \ (1 .. 32)) \cup {k + 1 : k \in Bits32(n)}

setNumberOfLiteralWords(w, n) == (w \ (33 .. 63)) \cup {k + 33 : k \in Bits31(n)}

\* int32 addition of one, wrapping at MaxInt32
Inc32(n) == IF n = MaxInt32 THEN (-MaxInt32) - 1 ELSE n + 1

(***************************************************************************)
(* Ewah: [buffer, actualSizeInWords, sizeInBits, p]; p is rlw.p, the index *)
(* of the marker the current running length word views.  Every            *)
(* reallocation re-seats rlw on the new buffer, so the view is always of   *)
(* the bitmap's own buffer.                                                *)
(***************************************************************************)
At(buffer, k) == buffer[k + 1]

InBuffer(buffer, k) == k >= 0 /\ k < Len(buffer)

\* n zero words, as make([]int64, n) leaves them
RECURSIVE Zeros(_)
Zeros(n) == IF n <= 0 THEN <<>> ELSE Append(Zeros(n - 1), ZeroWord)

\* this.rlw as a word, and the write of a marker through the view
rlw(this) == At(this.buffer, this.p)

withRlw(this, w) == [this EXCEPT !.buffer[this.p + 1] = w]

\* New(): a buffer of 4 words, then Reset()
New ==
    [buffer |-> Zeros(defaultBufferSize), actualSizeInWords |-> 1,
     sizeInBits |-> 0, p |-> 0]

\* Reset(): buffer[0] = 0, the other words stay as they are
Reset(this) ==
    [this EXCEPT !.buffer[1] = ZeroWord, !.actualSizeInWords = 1,
                 !.sizeInBits = 0, !.p = 0]

\* the capacity after a growth for number more words
newSize(bufferCap, number) ==
    IF bufferCap + number < 32768 THEN (bufferCap + number) * 2
    ELSE ((bufferCap + number) * 3) \div 2

\* pushBackMultiple(data, 0, Len(data))
pushBackMultiple(this, data) ==
    LET bufferCap == Len(this.buffer)
        number == Len(data)
        \* copy(this.buffer[actualSizeInWords:], data) into the buffer in use
        copyInto(buffer) ==
            LET copied == Min(number, Len(buffer) - this.actualSizeInWords)
            IN  [this EXCEPT
                   !.buffer = SubSeq(buffer, 1, this.actualSizeInWords)
                                \o SubSeq(data, 1, copied)
                                \o SubSeq(buffer, this.actualSizeInWords + copied + 1,
                                          Len(buffer)),
                   !.actualSizeInWords = @ + number]
    IN  copyInto(IF this.actualSizeInWords = bufferCap
                 THEN this.buffer \o Zeros(newSize(bufferCap, number) - bufferCap)
                 ELSE this.buffer)

pushBack(this, data) == pushBackMultiple(this, <<data>>)

\* pushBack(0) followed by rlw.reset(buffer, actualSizeInWords-1)
pushMarker(this) ==
    LET reset(t) == [t EXCEPT !.p = t.actualSizeInWords - 1]
    IN  reset(pushBack(this, ZeroWord))

\* an addEmptyWord that opens a segment for every word
addEmptyWordInNewSegment(this, v) ==
    LET newRun(t2) == withRlw(t2, setRunningLength(setRunningBit(rlw(t2), v), 1))
    IN  newRun(pushMarker(this))

addEmptyWord(this, v) ==
    LET w == rlw(this)
        noLiteralWord == getNumberOfLiteralWords(w) = 0
        runlen == getRunningLength(w)
        \* setRunningBit(v); setRunningLength(1) on the marker just pushed
        newRun(t2) == withRlw(t2, setRunningLength(setRunningBit(rlw(t2), v), 1))
        \* from "if noLiteralWord && getRunningBit() == v && ..." on
        extend(t1) ==
            IF noLiteralWord /\ getRunningBit(rlw(t1)) = v
                 /\ ~isLargestRunningLength(rlw(t1))
            THEN withRlw(t1, setRunningLength(rlw(t1), runlen + 1))
            ELSE newRun(pushMarker(t1))
    IN  extend(IF noLiteralWord /\ runlen = 0
               THEN withRlw(this, setRunningBit(w, v)) ELSE this)

addLiteralWord(this, newdata) ==
    LET numberSoFar == getNumberOfLiteralWords(rlw(this))
        \* rlw.setNumberOfLiteralWords(n); pushBack(newdata)
        count(t, n) == pushBack(withRlw(t, setNumberOfLiteralWords(rlw(t), n)), newdata)
    IN  count(IF numberSoFar >= LargestLiteralCount
              THEN count(pushMarker(this), 1)
              ELSE this,
              Inc32(numberSoFar))

\* the body shared by addStreamOfEmptyWords and fastAddStreamOfEmptyWords.
\* The loop "for number >= LargestRunningLengthCount" never runs for a
\* number below 2^31.
streamOfEmptyWords(this, v, number) ==
    LET w == rlw(this)
        \* if v { rlw.setRunningBit(v) } on the marker just pushed
        marked(m) == IF v THEN withRlw(m, setRunningBit(rlw(m), v)) ELSE m
        \* rlw.setRunningLength(n)
        withLength(t, n) == withRlw(t, setRunningLength(rlw(t), n))
        \* if number > 0 { a new marker for the words left }
        rest(t2, left) ==
            IF left > 0 THEN withLength(marked(pushMarker(t2)), left) ELSE t2
        \* from "runlen := this.rlw.getRunningLength()" on
        extend(t1) ==
            LET runlen == getRunningLength(rlw(t1))
                whatWeCanAdd == Min(number, LargestLiteralCount - runlen)
            IN  rest(withLength(t1, runlen + whatWeCanAdd), number - whatWeCanAdd)
    IN  extend(IF getRunningBit(w) # v /\ rlwSize(w) = 0
               THEN withRlw(this, setRunningBit(w, v))
               ELSE IF getNumberOfLiteralWords(w) # 0 \/ getRunningBit(w) # v
                    THEN marked(pushMarker(this))
                    ELSE this)

\* a fast append that comes one word short
fastAddOneWordShort(this, v, number) == streamOfEmptyWords(this, v, number - 1)

fastAddStreamOfEmptyWords(this, v, number) == streamOfEmptyWords(this, v, number)

addStreamOfEmptyWords(this, v, number) ==
    IF number = 0 THEN this
    ELSE streamOfEmptyWords(
           [this EXCEPT !.sizeInBits = @ + number * wordInBits], v, number)

\* add(newdata) = addSignificantBits(newdata, wordInBits)
addSignificantBits(this, newdata, bitsthatmatter) ==
    LET t == [this EXCEPT !.sizeInBits = @ + bitsthatmatter]
    IN  IF newdata = ZeroWord THEN addEmptyWord(t, FALSE)
        ELSE IF newdata = NotOne THEN addEmptyWord(t, TRUE)
        ELSE addLiteralWord(t, newdata)

add(this, newdata) == addSignificantBits(this, newdata, wordInBits)

\* setSizeInBits: refused (an error the callers drop) when the word count differs
setSizeInBits(this, size) ==
    IF WordOf(size + wordInBits - 1) # WordOf(this.sizeInBits + wordInBits - 1)
    THEN this
    ELSE [this EXCEPT !.sizeInBits = size]

\* Set(i): [bm, ret]; ret = FALSE is the nil return
\* a Set that does not compare the index with the size
SetWithoutOrderCheck(this, i) ==
    IF i > MaxInt32 - wordInBits \/ i < 0 THEN [bm |-> this, ret |-> FALSE]
    ELSE [bm |-> addLiteralWord([this EXCEPT !.sizeInBits = i + 1],
                                {i % wordInBits}),
          ret |-> TRUE]

\* a Set that takes "strictly ascending" as strictly above Size()
SetAboveSizeOnly(this, i) ==
    IF i > MaxInt32 - wordInBits \/ i < 0 THEN [bm |-> this, ret |-> FALSE]
    ELSE IF i < this.sizeInBits \/ (i = this.sizeInBits /\ i > 0)
    THEN [bm |-> this, ret |-> FALSE]
    ELSE [bm |-> addLiteralWord([this EXCEPT !.sizeInBits = i + 1],
                                {i % wordInBits}),
          ret |-> TRUE]

Set(this, i) ==
    IF i > MaxInt32 - wordInBits \/ i < 0 THEN [bm |-> this, ret |-> FALSE]
    ELSE IF i < this.sizeInBits THEN [bm |-> this, ret |-> FALSE]
    ELSE
      LET dist == WordOf(i + wordInBits) - WordOf(this.sizeInBits + wordInBits - 1)
          t0 == [this EXCEPT !.sizeInBits = i + 1]
          bit == {i % wordInBits}
      IN  IF dist > 0
          THEN LET t1 == IF dist > 1
                         THEN fastAddStreamOfEmptyWords(t0, FALSE, dist - 1)
                         ELSE t0
               IN  [bm |-> addLiteralWord(t1, bit), ret |-> TRUE]
          ELSE IF getNumberOfLiteralWords(rlw(t0)) = 0
          THEN LET t1 == withRlw(t0, setRunningLength(rlw(t0),
                                       getRunningLength(rlw(t0)) - 1))
               IN  [bm |-> addLiteralWord(t1, bit), ret |-> TRUE]
          ELSE
            LET last == t0.actualSizeInWords
                t1 == [t0 EXCEPT !.buffer[last] = @ \cup bit]
            IN  IF t1.buffer[last] = AllOnes
                THEN LET t2 == [t1 EXCEPT !.buffer[last] = ZeroWord,
                                          !.actualSizeInWords = @ - 1]
                         t3 == withRlw(t2, setNumberOfLiteralWords(rlw(t2),
                                 getNumberOfLiteralWords(rlw(t2)) - 1))
                     IN  [bm |-> addEmptyWord(t3, TRUE), ret |-> TRUE]
                ELSE [bm |-> t1, ret |-> TRUE]

(***************************************************************************)
(* Get(i).  GetRun returns what the call returns ("true", "false", or      *)
(* "panic" for an index out of the buffer's range) and the set of buffer   *)
(* positions it read.                                                      *)
(***************************************************************************)
RECURSIVE GetLoop(_, _, _, _, _, _)
GetLoop(this, wordi, biti, wordChecked, marker, reads) ==
    IF ~(wordChecked <= wordi) THEN [ret |-> "false", reads |-> reads]
    ELSE IF ~InBuffer(this.buffer, marker)
    THEN [ret |-> "panic", reads |-> reads \cup {marker}]
    ELSE
      LET m == At(this.buffer, marker)
          numOfLiteralWords == getNumberOfLiteralWords(m)
          checked == ClampAdd(wordChecked, getRunningLength(m))
          index == marker + (wordi - checked) + 1
      IN  IF wordi < checked
          THEN [ret |-> IF getRunningBit(m) THEN "true" ELSE "false",
                reads |-> reads \cup {marker}]
          ELSE IF wordi - checked < numOfLiteralWords
          THEN IF ~InBuffer(this.buffer, index)
               THEN [ret |-> "panic", reads |-> reads \cup {marker, index}]
               ELSE [ret |-> IF biti \in At(this.buffer, index)
                             THEN "true" ELSE "false",
                     reads |-> reads \cup {marker, index}]
          ELSE GetLoop(this, wordi, biti,
                       ClampAdd(checked, numOfLiteralWords),
                       ClampAdd(marker, ClampAdd(numOfLiteralWords, 1)),
                       reads \cup {marker})

GetRun(this, i) ==
    IF i < 0 \/ i > this.sizeInBits THEN [ret |-> "false", reads |-> {}]
    ELSE GetLoop(this, WordOf(i), i % wordInBits, 0, 0, {})

Get(this, i) == GetRun(this, i).ret = "true"

\* popcount_3
popcount(w) == Cardinality(w)

\* the sum of popcount over buffer[lo..hi]
RECURSIVE SumPop(_, _, _)
SumPop(buffer, lo, hi) ==
    IF lo > hi THEN 0 ELSE popcount(At(buffer, lo)) + SumPop(buffer, lo + 1, hi)

\* the largest running length whose 64-fold fits the model's integers
MaxCountedRun == MaxInt32 \div wordInBits

(***************************************************************************)
(* Cardinality(): the count, or Panic when the walk indexes out of the     *)
(* buffer's range.                                                         *)
(***************************************************************************)
Panic == 0 - 1

RECURSIVE CardinalityLoop(_, _, _)
CardinalityLoop(this, marker, counter) ==
    IF ~(marker < this.actualSizeInWords) THEN counter
    ELSE IF ~InBuffer(this.buffer, marker) THEN Panic
    ELSE
      LET w == At(this.buffer, marker)
          rl == getRunningLength(w)
          run == IF ~getRunningBit(w) THEN 0
                 ELSE IF rl > MaxCountedRun THEN MaxModelInt
                 ELSE wordInBits * rl
          numOfLiteralWords == getNumberOfLiteralWords(w)
      IN  IF numOfLiteralWords > Len(this.buffer) - 1 - marker THEN Panic
          ELSE CardinalityLoop(this, marker + numOfLiteralWords + 1,
                 ClampAdd(ClampAdd(counter, run),
                          SumPop(this.buffer, marker + 1,
                                 marker + numOfLiteralWords)))

CardinalityOf(this) == CardinalityLoop(this, 0, 0)

(***************************************************************************)
(* Not(): [bm, panic]; on a panic bm is the bitmap as the walk left it.    *)
(***************************************************************************)
\* a mask that keeps the whole last word
keepAllBits(lastBits) == AllOnes

\* ^uint64(0) >> (wordInBits - lastBits): the low lastBits bits
lowBits(lastBits) == 0 .. (lastBits - 1)

\* uint64(0) >> (wordInBits - lastBits)
zeroShifted(lastBits) == ZeroWord

\* buffer[marker+i] = ^buffer[marker+i] for i = 1..n, as far as the buffer goes
RECURSIVE negateFrom(_, _, _)
negateFrom(buffer, lo, hi) ==
    IF lo > hi THEN buffer
    ELSE negateFrom([buffer EXCEPT ![lo + 1] = AllOnes \ @], lo + 1, hi)

negateLiterals(buffer, marker, n) ==
    negateFrom(buffer, marker + 1,
               IF n > Len(buffer) - 1 - marker THEN Len(buffer) - 1
               ELSE marker + n)

RECURSIVE NotLoop(_, _)
NotLoop(this, marker) ==
    IF ~(marker < this.actualSizeInWords) THEN [bm |-> this, panic |-> FALSE]
    ELSE IF ~InBuffer(this.buffer, marker) THEN [bm |-> this, panic |-> TRUE]
    ELSE
      LET m0 == At(this.buffer, marker)
          numOfLiteralWords == getNumberOfLiteralWords(m0)
          m == setRunningBit(m0, ~getRunningBit(m0))
          t1 == [this EXCEPT
                   !.buffer = negateLiterals(
                                [this.buffer EXCEPT ![marker + 1] = m],
                                marker, numOfLiteralWords)]
          lastBits == this.sizeInBits % wordInBits
      IN  IF numOfLiteralWords > Len(this.buffer) - 1 - marker
          THEN [bm |-> t1, panic |-> TRUE]
          ELSE IF numOfLiteralWords = this.actualSizeInWords - marker - 1
          THEN IF lastBits = 0 THEN [bm |-> t1, panic |-> FALSE]
               ELSE IF getNumberOfLiteralWords(m) = 0
               THEN IF getRunningLength(m) > 0 /\ getRunningBit(m)
                    THEN LET t2 == [t1 EXCEPT !.buffer[marker + 1] =
                                      setNumberOfLiteralWords(m,
                                        getNumberOfLiteralWords(m) - 1)]
                         IN  [bm |-> addLiteralWord(t2, zeroShifted(lastBits)),
                              panic |-> FALSE]
                    ELSE [bm |-> t1, panic |-> FALSE]
               ELSE [bm |-> [t1 EXCEPT
                               !.buffer[marker + numOfLiteralWords + 1] =
                                  @ \cap lowBits(lastBits)],
                     panic |-> FALSE]
          ELSE NotLoop(t1, marker + numOfLiteralWords + 1)

Not(this) == NotLoop(this, 0)

(***************************************************************************)
(* EWAHIterator and BufferedRunningLengthWordIterator, merged in one       *)
(* record: buffer and L (the populated length) and pointer are the raw     *)
(* iterator; rb, rl, nl are the consumable working copy of the current     *)
(* segment and lit is the position of its first pending literal word.      *)
(***************************************************************************)
hasNext(it) == it.pointer < it.L

\* next(): bind the working copy to the marker at pointer, advance by 1 + nl
next(it) ==
    LET w == At(it.buffer, it.pointer)
    IN  [it EXCEPT !.rb = getRunningBit(w), !.rl = getRunningLength(w),
                   !.nl = getNumberOfLiteralWords(w),
                   !.lit = it.pointer + 1,
                   !.pointer = it.pointer + 1 + getNumberOfLiteralWords(w)]

\* newBufferedRunningLengthWordIterator(NewEWAHIterator(buffer, sizeInWords))
newBufferedRunningLengthWordIterator(buffer, sizeInWords) ==
    next([buffer |-> buffer, L |-> sizeInWords, pointer |-> 0,
          rb |-> FALSE, rl |-> 0, nl |-> 0, lit |-> 0])

\* the logical words of the segments from marker position q on
RECURSIVE wordsFrom(_, _, _)
wordsFrom(buffer, L, q) ==
    IF ~(q < L) THEN 0
    ELSE LET w == At(buffer, q)
         IN  getRunningLength(w) + getNumberOfLiteralWords(w)
               + wordsFrom(buffer, L, q + 1 + getNumberOfLiteralWords(w))

\* size(): the logical words that remain, current segment and later ones
itSize(it) == it.rl + it.nl + wordsFrom(it.buffer, it.L, it.pointer)

getLiteralWordAt(it, k) == At(it.buffer, it.lit + k)

RECURSIVE discardFirstWords(_, _)
discardFirstWords(it, x) ==
    IF x <= 0 THEN it
    ELSE IF it.rl > x THEN [it EXCEPT !.rl = @ - x]
    ELSE
      LET x1 == x - it.rl
          toDiscard == Min(x1, it.nl)
          it1 == [it EXCEPT !.rl = 0, !.lit = @ + toDiscard, !.nl = @ - toDiscard]
          x2 == x1 - toDiscard
      IN  IF x2 > 0 \/ it1.nl = 0
          THEN IF hasNext(it1) THEN discardFirstWords(next(it1), x2) ELSE it1
          ELSE it1

\* sink.add of the literal words lit+k .. lit+n-1 of it, negated or not
RECURSIVE addLiterals(_, _, _, _, _)
addLiterals(sink, it, k, n, negated) ==
    IF k >= n THEN sink
    ELSE LET w == getLiteralWordAt(it, k)
         IN  addLiterals(add(sink, IF negated THEN AllOnes \ w ELSE w),
                         it, k + 1, n, negated)

\* discharge(sink, max) and dischargeNegated(sink, max): [it, sink, index]
RECURSIVE dischargeLoop(_, _, _, _, _)
dischargeLoop(it, sink, max, index, negated) ==
    IF ~(index < max /\ itSize(it) > 0)
    THEN [it |-> it, sink |-> sink, index |-> index]
    ELSE
      LET pl == IF index + it.rl > max THEN max - index ELSE it.rl
          index1 == index + pl
          pd == IF it.nl + index1 > max THEN max - index1 ELSE it.nl
          \* an empty working copy has nothing to hand over
          handOver(s2) ==
              IF pl + pd = 0 THEN [it |-> it, sink |-> s2, index |-> index1]
              ELSE dischargeLoop(discardFirstWords(it, pl + pd), s2, max,
                                 index1 + pd, negated)
      IN  handOver(addLiterals(
                     addStreamOfEmptyWords(sink,
                       IF negated THEN ~it.rb ELSE it.rb, pl),
                     it, 0, pd, negated))

discharge(it, sink, max) == dischargeLoop(it, sink, max, 0, FALSE)

dischargeNegated(it, sink, max) == dischargeLoop(it, sink, max, 0, TRUE)

\* dischargeContainer(sink) = discharge(sink, size())
dischargeContainer(it, sink) == discharge(it, sink, itSize(it)).sink

\* dischargeAsEmpty(sink): size() zero words
dischargeAsEmpty(it, sink) == addStreamOfEmptyWords(sink, FALSE, itSize(it))

(***************************************************************************)
(* The merge engine.  A merge state is [i, j, c, neg]: the two buffered    *)
(* iterators rlwi and rlwj, the container, and neg, set when the code is   *)
(* about to hand a negative word count to the container.  The model stops  *)
(* the merge there (c is the container at that moment): the fields such a  *)
(* count writes do not fit the model's integers.                           *)
(***************************************************************************)
adjustContainerSizeWhenAggregating == TRUE

\* the literal words the four operators combine
andWords(x, y) == x \cap y
orWords(x, y) == x \cup y
xorWords(x, y) == (x \ y) \cup (y \ x)
andNotWords(x, y) == x \ y

\* i_is_prey := rlwi.getRunningLength() < rlwj.getRunningLength()
iIsPrey(M) == M.i.rl < M.j.rl
prey(M) == IF iIsPrey(M) THEN M.i ELSE M.j
predator(M) == IF iIsPrey(M) THEN M.j ELSE M.i

\* the merge state with prey and predator put back in their places
withPair(M, newPrey, newPredator, c) ==
    IF iIsPrey(M) THEN [M EXCEPT !.i = newPrey, !.j = newPredator, !.c = c]
    ELSE [M EXCEPT !.j = newPrey, !.i = newPredator, !.c = c]

\* container.addStreamOfEmptyWords(v, number), or the stop on a negative number
streamOrStop(M, v, number) ==
    IF number < 0 THEN [M EXCEPT !.neg = TRUE]
    ELSE [M EXCEPT !.c = addStreamOfEmptyWords(M.c, v, number)]

\* emit the predator's run as empty words of value v, drop the prey's words
emitRun(M, v) ==
    LET n == predator(M).rl
    IN  withPair(M, discardFirstWords(prey(M), n),
                 discardFirstWords(predator(M), n),
                 addStreamOfEmptyWords(M.c, v, n))

\* index := who.discharge[Negated](container, predator.getRunningLength());
\* container.addStreamOfEmptyWords(pad, predator.getRunningLength() - index);
\* predator.discardFirstWords(predator.getRunningLength())
dischargeRun(M, whoIsPrey, negated, pad) ==
    LET who == IF whoIsPrey THEN prey(M) ELSE predator(M)
        \* predator.discardFirstWords(predator.getRunningLength())
        drop(M2, pred1) ==
            IF M2.neg THEN M2
            ELSE IF iIsPrey(M) THEN [M2 EXCEPT !.j = discardFirstWords(pred1, pred1.rl)]
            ELSE [M2 EXCEPT !.i = discardFirstWords(pred1, pred1.rl)]
        \* the padding, counted from the predator as the discharge left it
        fill(M1, pred1, index) == drop(streamOrStop(M1, pad, pred1.rl - index), pred1)
        after(M1, index) == fill(M1, IF iIsPrey(M) THEN M1.j ELSE M1.i, index)
        discharged(d) ==
            after(IF whoIsPrey THEN withPair(M, d.it, predator(M), d.sink)
                  ELSE withPair(M, prey(M), d.it, d.sink),
                  d.index)
    IN  discharged(dischargeLoop(who, M.c, predator(M).rl, 0, negated))

\* one pass of the running-portion loop of each operator
andRunStep(M) ==
    IF predator(M).rb = FALSE THEN emitRun(M, FALSE)
    ELSE dischargeRun(M, FALSE, FALSE, FALSE)

\* the AND-NOT step with the zero runs where the table of the spec has them:
\* zero words whenever the prey is this (rlwi)
andNotRunStepByTable(M) ==
    IF iIsPrey(M) THEN emitRun(M, FALSE)
    ELSE IF predator(M).rb = FALSE THEN dischargeRun(M, TRUE, FALSE, FALSE)
    ELSE dischargeRun(M, TRUE, TRUE, TRUE)

andNotRunStep(M) ==
    IF (predator(M).rb = TRUE /\ iIsPrey(M))
       \/ (predator(M).rb = FALSE /\ ~iIsPrey(M))
    THEN emitRun(M, FALSE)
    ELSE IF iIsPrey(M) THEN dischargeRun(M, TRUE, FALSE, FALSE)
    ELSE dischargeRun(M, TRUE, TRUE, TRUE)

orRunStep(M) ==
    IF predator(M).rb = TRUE THEN emitRun(M, TRUE)
    ELSE dischargeRun(M, TRUE, FALSE, FALSE)

xorRunStep(M) ==
    IF predator(M).rb = FALSE THEN dischargeRun(M, TRUE, FALSE, FALSE)
    ELSE dischargeRun(M, TRUE, TRUE, TRUE)

runStep(op, M) ==
    CASE op = "And" -> andRunStep(M)
      [] op = "AndNot" -> andNotRunStep(M)
      [] op = "Or" -> orRunStep(M)
      [] op = "Xor" -> xorRunStep(M)

combine(op, x, y) ==
    CASE op = "And" -> andWords(x, y)
      [] op = "AndNot" -> andNotWords(x, y)
      [] op = "Or" -> orWords(x, y)
      [] op = "Xor" -> xorWords(x, y)

\* for rlwi.getRunningLength() > 0 || rlwj.getRunningLength() > 0
RECURSIVE runLoop(_, _)
runLoop(op, M) ==
    IF ~M.neg /\ (M.i.rl > 0 \/ M.j.rl > 0) THEN runLoop(op, runStep(op, M))
    ELSE M

\* container.add(rlwi.getLiteralWordAt(k) op rlwj.getLiteralWordAt(k)), k < n
RECURSIVE addCombined(_, _, _, _)
addCombined(op, M, k, n) ==
    IF k >= n THEN M.c
    ELSE addCombined(op,
           [M EXCEPT !.c = add(M.c, combine(op, getLiteralWordAt(M.i, k),
                                            getLiteralWordAt(M.j, k)))],
           k + 1, n)

literalStep(op, M) ==
    LET nbre_literal == Min(M.i.nl, M.j.nl)
    IN  IF M.neg \/ nbre_literal <= 0 THEN M
        ELSE [M EXCEPT !.c = addCombined(op, M, 0, nbre_literal),
                       !.i = discardFirstWords(M.i, nbre_literal),
                       !.j = discardFirstWords(M.j, nbre_literal)]

\* for rlwi.size() > 0 && rlwj.size() > 0
RECURSIVE mergeLoop(_, _)
mergeLoop(op, M) ==
    IF ~M.neg /\ itSize(M.i) > 0 /\ itSize(M.j) > 0
    THEN mergeLoop(op, literalStep(op, runLoop(op, M)))
    ELSE M

\* the container bitOp hands to the merge: New() then reserve(max of the sizes)
reserve(this, size) ==
    IF size > Len(this.buffer)
    THEN [this EXCEPT !.buffer = @ \o Zeros(size - Len(this.buffer)), !.p = 0]
    ELSE this

newContainer(this, a) ==
    reserve(New, Max(this.actualSizeInWords, a.actualSizeInWords))

startMerge(x, y, container) ==
    [i |-> newBufferedRunningLengthWordIterator(x.buffer, x.actualSizeInWords),
     j |-> newBufferedRunningLengthWordIterator(y.buffer, y.actualSizeInWords),
     c |-> container, neg |-> FALSE]

\* an operand after a merge: the iterator reads the operand's own array, and
\* the merge assigns none of the operand's fields
operandAfter(x, it) == [x EXCEPT !.buffer = it.buffer]

\* each returns [bm, neg] and the two operands as the merge leaves them
andToContainer(this, a, container) ==
    LET remaining(M) == IF itSize(M.i) > 0 THEN M.i ELSE M.j
        finish(M) ==
            IF M.neg THEN [bm |-> M.c, neg |-> TRUE]
            ELSE IF adjustContainerSizeWhenAggregating
            THEN [bm |-> setSizeInBits(dischargeAsEmpty(remaining(M), M.c),
                                       Max(this.sizeInBits, a.sizeInBits)),
                  neg |-> FALSE]
            ELSE [bm |-> M.c, neg |-> FALSE]
        seal(r, M) == [bm |-> r.bm, neg |-> r.neg,
                       this |-> operandAfter(this, M.j), a |-> operandAfter(a, M.i)]
        done(M) == seal(finish(M), M)
    IN  done(mergeLoop("And", startMerge(a, this, container)))

andNotToContainer(this, a, container) ==
    LET i_remains(M) == itSize(M.i) > 0
        remaining(M) == IF i_remains(M) THEN M.i ELSE M.j
        sized(c1) ==
            IF adjustContainerSizeWhenAggregating
            THEN [bm |-> setSizeInBits(c1, Max(this.sizeInBits, a.sizeInBits)),
                  neg |-> FALSE]
            ELSE [bm |-> c1, neg |-> FALSE]
        finish(M) ==
            IF M.neg THEN [bm |-> M.c, neg |-> TRUE]
            ELSE sized(IF i_remains(M) THEN dischargeContainer(remaining(M), M.c)
                       ELSE IF adjustContainerSizeWhenAggregating
                       THEN dischargeAsEmpty(remaining(M), M.c)
                       ELSE M.c)
        seal(r, M) == [bm |-> r.bm, neg |-> r.neg,
                       this |-> operandAfter(this, M.i), a |-> operandAfter(a, M.j)]
        done(M) == seal(finish(M), M)
    IN  done(mergeLoop("AndNot", startMerge(this, a, container)))

orToContainer(this, a, container) ==
    LET remaining(M) == IF itSize(M.i) > 0 THEN M.i ELSE M.j
        finish(M) ==
            IF M.neg THEN [bm |-> M.c, neg |-> TRUE]
            ELSE [bm |-> setSizeInBits(dischargeContainer(remaining(M), M.c),
                                       Max(this.sizeInBits, a.sizeInBits)),
                  neg |-> FALSE]
        seal(r, M) == [bm |-> r.bm, neg |-> r.neg,
                       this |-> operandAfter(this, M.j), a |-> operandAfter(a, M.i)]
        done(M) == seal(finish(M), M)
    IN  done(mergeLoop("Or", startMerge(a, this, container)))

xorToContainer(this, a, container) ==
    LET remaining(M) == IF itSize(M.i) > 0 THEN M.i ELSE M.j
        finish(M) ==
            IF M.neg THEN [bm |-> M.c, neg |-> TRUE]
            ELSE [bm |-> setSizeInBits(dischargeContainer(remaining(M), M.c),
                                       Max(this.sizeInBits, a.sizeInBits)),
                  neg |-> FALSE]
        seal(r, M) == [bm |-> r.bm, neg |-> r.neg,
                       this |-> operandAfter(this, M.j), a |-> operandAfter(a, M.i)]
        done(M) == seal(finish(M), M)
    IN  done(mergeLoop("Xor", startMerge(a, this, container)))

\* the operators as an in-place variant would run them: the receiver takes
\* the container's content
bitOpInPlace(op, this, a) ==
    LET inPlace(r) == [r EXCEPT !.this = r.bm]
    IN  inPlace(CASE op = "And" -> andToContainer(this, a, newContainer(this, a))
                  [] op = "AndNot" -> andNotToContainer(this, a, newContainer(this, a))
                  [] op = "Or" -> orToContainer(this, a, newContainer(this, a))
                  [] op = "Xor" -> xorToContainer(this, a, newContainer(this, a)))

\* bitOp(a, f): the four public operators
bitOp(op, this, a) ==
    CASE op = "And" -> andToContainer(this, a, newContainer(this, a))
      [] op = "AndNot" -> andNotToContainer(this, a, newContainer(this, a))
      [] op = "Or" -> orToContainer(this, a, newContainer(this, a))
      [] op = "Xor" -> xorToContainer(this, a, newContainer(this, a))

\* Clone() and Copy(other): a fresh buffer holding the other bitmap's words
Clone(this) ==
    LET c0 == reserve(New, this.actualSizeInWords)
        n == Min(Len(c0.buffer), Len(this.buffer))
    IN  [buffer |-> SubSeq(this.buffer, 1, n) \o SubSeq(c0.buffer, n + 1, Len(c0.buffer)),
         actualSizeInWords |-> this.actualSizeInWords,
         sizeInBits |-> this.sizeInBits,
         p |-> this.p]

Copy(this, other) ==
    LET n == Min(other.actualSizeInWords, Len(other.buffer))
    IN  [buffer |-> SubSeq(other.buffer, 1, n) \o Zeros(other.actualSizeInWords - n),
         actualSizeInWords |-> other.actualSizeInWords,
         sizeInBits |-> other.sizeInBits,
         p |-> other.p]

\* Swap with the two rlw left where they were: each still points at the
\* marker position of the buffer it had
SwapWithoutRlw(this, other) ==
    [this |-> [other EXCEPT !.p = this.p], other |-> [this EXCEPT !.p = other.p]]

\* Swap(other): buffer, rlw, actualSizeInWords and sizeInBits change hands;
\* each rlw goes with the buffer it views
Swap(this, other) ==
    [this |-> [buffer |-> other.buffer, p |-> other.p,
               actualSizeInWords |-> other.actualSizeInWords,
               sizeInBits |-> other.sizeInBits],
     other |-> [buffer |-> this.buffer, p |-> this.p,
                actualSizeInWords |-> this.actualSizeInWords,
                sizeInBits |-> this.sizeInBits]]

\* b.Copy(b): other is this, so "this.buffer = make(...)" replaces the buffer
\* of the source too, and copy(this.buffer, o.buffer) copies the new zero
\* words onto themselves
CopySelf(this) ==
    LET \* this.buffer = make([]int64, o.SizeInWords())
        made(o) == [o EXCEPT !.buffer = Zeros(o.actualSizeInWords)]
        \* the copy and the assignments of lines 212-215, with o the same object
        filled(o) == Copy(o, o)
    IN  filled(made(this))

\* the caller's loop "for i := lo; i <= hi; i++ { if bm.Set(i) == nil { fatal } }"
RECURSIVE SetAll(_, _, _)
SetAll(this, lo, hi) ==
    IF lo > hi THEN [bm |-> this, ret |-> TRUE, i |-> hi]
    ELSE LET after(r) == IF r.ret THEN SetAll(r.bm, lo + 1, hi)
                         ELSE [bm |-> r.bm, ret |-> FALSE, i |-> lo]
         IN  after(Set(this, lo))

(***************************************************************************)
(* The state machine: a client holding two bitmaps a and b and the result  *)
(* c of the last call that returned a new bitmap.                          *)
(*   built  what the client did to a and b: the indices its Set calls      *)
(*          accepted and whether Set calls are all it did since New()      *)
(*   prev   the bitmap a run of consecutive Not() calls started from, and   *)
(*          whether Set calls were all that had built it                   *)
(*   obs    the last call that returned a value or failed                  *)
(* c is a fresh allocation that shares nothing with a and b; the client    *)
(* keeps it only until it changes an operand.                              *)
(***************************************************************************)
VARIABLES a, b, c, built, prev, obs

vars == <<a, b, c, built, prev, obs>>

\* bounds of the exploration
MaxNots == 2
\* the longest logical expansion written out word by word
MaxExpansion == 8
\* arguments of Set and of the loops of Set calls in the life of one bitmap
SetInputs == {-1, 0, 63, 128, MaxInt32 - 63}
LoopInputs == {<<0, 62>>, <<1, 62>>}
\* and those the operands of the four operators are built with
BuildInputs == [a |-> {0, 63, 70, 128}, b |-> {0, 63}]
BuildLoops == [a |-> {<<0, 62>>, <<1, 62>>}, b |-> {<<1, 62>>}]
GetInputs(this) == {-1, 0, this.sizeInBits, this.sizeInBits + 1}
Ops == {"And", "AndNot", "Or", "Xor"}

NoResult == [op |-> "none", bm |-> New, neg |-> FALSE]
NoPrev == [t |-> "none", bm |-> New, n |-> 0, pure |-> FALSE]
NoObs == [op |-> "none", t |-> "none", i |-> 0, ret |-> "none", n |-> 0]
Fresh == [idx |-> {}, pure |-> TRUE]
Used == [idx |-> {}, pure |-> FALSE]

bmOf(t) == CASE t = "a" -> a [] t = "b" -> b [] t = "c" -> c.bm

\* a Go panic ends the program
crashed == obs.ret = "panic"

\* c can be used: a call returned it, and the merge that built it ran to its end
usable(t) == t = "c" => (c.op # "none" /\ ~c.neg)

\* bitmap t becomes v
store(t, v) ==
    /\ a' = IF t = "a" THEN v ELSE a
    /\ b' = IF t = "b" THEN v ELSE b
    /\ c' = IF t = "c" THEN [c EXCEPT !.bm = v]
            ELSE IF v = bmOf(t) THEN c ELSE NoResult

endChain(t) == IF prev.t = t THEN NoPrev ELSE prev

Init ==
    /\ a = New
    /\ b = New
    /\ c = NoResult
    /\ built = [t \in {"a", "b"} |-> Fresh]
    /\ prev = NoPrev
    /\ obs = NoObs

SetCall(t, i) ==
    /\ ~crashed
    /\ LET returns(r) ==
               /\ store(t, r.bm)
               /\ built' = IF r.ret THEN [built EXCEPT ![t].idx = @ \cup {i}]
                           ELSE built
               /\ prev' = IF r.ret THEN endChain(t) ELSE prev
               /\ obs' = IF r.ret THEN NoObs
                         ELSE [NoObs EXCEPT !.op = "Set", !.t = t, !.i = i,
                                            !.ret = "nil"]
       IN  returns(Set(bmOf(t), i))

SetLoop(t, lo, hi) ==
    /\ ~crashed
    /\ lo >= bmOf(t).sizeInBits
    /\ LET returns(r) ==
               /\ store(t, r.bm)
               /\ built' = [built EXCEPT ![t].idx =
                              @ \cup (lo .. (IF r.ret THEN hi ELSE r.i - 1))]
               /\ prev' = endChain(t)
               /\ obs' = IF r.ret THEN NoObs
                         ELSE [NoObs EXCEPT !.op = "Set", !.t = t, !.i = r.i,
                                            !.ret = "nil"]
       IN  returns(SetAll(bmOf(t), lo, hi))

NotCall(t) ==
    /\ ~crashed
    /\ usable(t)
    /\ prev.t = t => prev.n < MaxNots
    /\ LET returns(r) ==
               /\ store(t, r.bm)
               /\ built' = IF t = "c" THEN built
                           ELSE [built EXCEPT ![t].pure = FALSE]
               /\ prev' = IF prev.t = t THEN [prev EXCEPT !.n = @ + 1]
                          ELSE [t |-> t, bm |-> bmOf(t), n |-> 1,
                                pure |-> t # "c" /\ built[t].pure]
               /\ obs' = IF r.panic
                         THEN [NoObs EXCEPT !.op = "Not", !.t = t, !.ret = "panic"]
                         ELSE NoObs
       IN  returns(Not(bmOf(t)))

ResetCall(t) ==
    /\ ~crashed
    /\ store(t, Reset(bmOf(t)))
    /\ built' = [built EXCEPT ![t] = Used]
    /\ prev' = endChain(t)
    /\ obs' = NoObs

BitOpCall(op) ==
    /\ ~crashed
    /\ LET returns(r) ==
               /\ c' = [op |-> op, bm |-> IF r.neg THEN New ELSE r.bm, neg |-> r.neg]
               /\ a' = r.this
               /\ b' = r.a
       IN  returns(bitOp(op, a, b))
    /\ prev' = endChain("c")
    /\ obs' = NoObs
    /\ UNCHANGED built

CloneCall ==
    /\ ~crashed
    /\ c' = [op |-> "Clone", bm |-> Clone(a), neg |-> FALSE]
    /\ prev' = endChain("c")
    /\ obs' = NoObs
    /\ UNCHANGED <<a, b, built>>

CopyCall ==
    /\ ~crashed
    /\ store("a", Copy(a, b))
    /\ built' = [built EXCEPT !["a"] = Used]
    /\ prev' = endChain("a")
    /\ obs' = NoObs

\* c := x.Copy(a) on a bitmap x of the client's other than a and b
CopyOfCall ==
    /\ ~crashed
    /\ c' = [op |-> "Copy", bm |-> Copy(New, a), neg |-> FALSE]
    /\ prev' = endChain("c")
    /\ obs' = NoObs
    /\ UNCHANGED <<a, b, built>>

\* a.Copy(a)
SelfCopyCall ==
    /\ ~crashed
    /\ store("a", CopySelf(a))
    /\ built' = [built EXCEPT !["a"] = Used]
    /\ prev' = endChain("a")
    /\ obs' = [NoObs EXCEPT !.op = "CopySelf", !.t = "a"]

\* a.Swap(b)
SwapCall ==
    /\ ~crashed
    /\ LET returns(r) ==
               /\ a' = r.this
               /\ b' = r.other
       IN  returns(Swap(a, b))
    /\ c' = NoResult
    /\ built' = [a |-> built["b"], b |-> built["a"]]
    /\ prev' = NoPrev
    /\ obs' = [NoObs EXCEPT !.op = "Swap", !.t = "a"]

GetCall(t, i) ==
    /\ ~crashed
    /\ usable(t)
    /\ obs' = [NoObs EXCEPT !.op = "Get", !.t = t, !.i = i,
                            !.ret = GetRun(bmOf(t), i).ret]
    /\ UNCHANGED <<a, b, c, built, prev>>

CardinalityCall(t) ==
    /\ ~crashed
    /\ usable(t)
    /\ LET returns(n) ==
               obs' = [NoObs EXCEPT !.op = "Cardinality", !.t = t,
                                    !.ret = IF n = Panic THEN "panic" ELSE "ok",
                                    !.n = n]
       IN  returns(CardinalityOf(bmOf(t)))
    /\ UNCHANGED <<a, b, c, built, prev>>

\* one bitmap through its life: appends (accepted and refused), Not, Reset,
\* Clone, Copy and the queries
Next ==
    \/ \E i \in SetInputs : SetCall("a", i)
    \/ \E r \in LoopInputs : SetLoop("a", r[1], r[2])
    \/ NotCall("a")
    \/ ResetCall("a")
    \/ CloneCall
    \/ CopyCall
    \/ CopyOfCall
    \/ \E i \in GetInputs(a) : GetCall("a", i)
    \/ CardinalityCall("a")

Spec == Init /\ [][Next]_vars

\* two operands built by ascending Set calls, the four operators on them, and
\* Not and the queries on the result
Build(t, i) == i >= bmOf(t).sizeInBits /\ i <= MaxInt32 - wordInBits /\ SetCall(t, i)

OpsNext ==
    \/ \E t \in {"a", "b"} : \E i \in BuildInputs[t] : Build(t, i)
    \/ \E t \in {"a", "b"} : \E r \in BuildLoops[t] : SetLoop(t, r[1], r[2])
    \/ \E op \in Ops : BitOpCall(op)
    \/ NotCall("c")
    \/ CardinalityCall("c")

OpsSpec == Init /\ [][OpsNext]_vars

\* two bitmaps built by ascending Set calls, and Swap
PairNext ==
    \/ \E t \in {"a", "b"} : \E i \in BuildInputs[t] : Build(t, i)
    \/ \E t \in {"a", "b"} : \E r \in BuildLoops[t] : SetLoop(t, r[1], r[2])
    \/ SwapCall
    \/ \E i \in GetInputs(a) : GetCall("a", i)
    \/ CardinalityCall("a")

PairSpec == Init /\ [][PairNext]_vars

(***************************************************************************)
(* Reset() against New(): a is built (Set, Not, Copy onto itself) and       *)
(* reset, and from then on b is a bitmap made by New() at the moment of    *)
(* the reset that receives every call a receives.  built["b"].pure is      *)
(* FALSE once b plays this part.                                           *)
(***************************************************************************)
twinned == ~built["b"].pure

\* a.Reset() (Clear() is the same call); b := New()
ResetTwinCall ==
    /\ ~crashed
    /\ a' = Reset(a)
    /\ b' = New
    /\ c' = NoResult
    /\ built' = [t \in {"a", "b"} |-> Used]
    /\ prev' = NoPrev
    /\ obs' = [NoObs EXCEPT !.op = "Reset", !.t = "a"]

\* a.Set(i); b.Set(i)
TwinSet(i) ==
    /\ ~crashed
    /\ twinned
    /\ a' = Set(a, i).bm
    /\ b' = Set(b, i).bm
    /\ obs' = NoObs
    /\ UNCHANGED <<c, built, prev>>

\* the loop of Set calls on a and on b
TwinLoop(lo, hi) ==
    /\ ~crashed
    /\ twinned
    /\ lo >= a.sizeInBits
    /\ a' = SetAll(a, lo, hi).bm
    /\ b' = SetAll(b, lo, hi).bm
    /\ obs' = NoObs
    /\ UNCHANGED <<c, built, prev>>

\* a.Not(); b.Not()
TwinNot ==
    /\ ~crashed
    /\ twinned
    /\ LET returns(r, s) ==
               /\ a' = r.bm
               /\ b' = s.bm
               /\ obs' = IF r.panic \/ s.panic
                         THEN [NoObs EXCEPT !.op = "Not", !.t = "a", !.ret = "panic"]
                         ELSE NoObs
       IN  returns(Not(a), Not(b))
    /\ UNCHANGED <<c, built, prev>>

ResetNext ==
    \/ ~twinned /\ \E i \in SetInputs : SetCall("a", i)
    \/ ~twinned /\ \E r \in LoopInputs : SetLoop("a", r[1], r[2])
    \/ ~twinned /\ NotCall("a")
    \/ ~twinned /\ SelfCopyCall
    \/ ResetTwinCall
    \/ \E i \in SetInputs : TwinSet(i)
    \/ \E r \in LoopInputs : TwinLoop(r[1], r[2])
    \/ TwinNot
    \/ \E i \in GetInputs(a) : GetCall("a", i)
    \/ CardinalityCall("a")

ResetSpec == Init /\ [][ResetNext]_vars

(***************************************************************************)
(* What the queries say about a bitmap.                                    *)
(***************************************************************************)
Indices(this) == 0 .. (this.sizeInBits - 1)

\* the bit the bitmap holds at i, as Get reports it for an index below Size()
Bit(this, i) == i < this.sizeInBits /\ Get(this, i)

SetBits(this) == {i \in Indices(this) : Get(this, i)}

\* the indices a client may append: ascending, and no larger than Set allows
Appendable(this) ==
    {i \in BuildInputs["a"] \cup {this.sizeInBits, MaxInt32 - wordInBits} :
        i >= this.sizeInBits /\ i <= MaxInt32 - wordInBits}

\* C1: on a bitmap built from New() by Set calls with strictly ascending
\* indices every such call is accepted, Get is true at every index that was
\* set and false at every other index below Size()
C1_SetThenGet ==
    \A t \in {"a", "b"} :
        /\ \A i \in Indices(bmOf(t)) : Get(bmOf(t), i) <=> i \in built[t].idx
        /\ \A i \in Appendable(bmOf(t)) : Set(bmOf(t), i).ret

C1_Witness ==
    /\ {0, 70, 128} \subseteq built["a"].idx
    /\ Get(a, 128)
    /\ ~Get(a, 127)
    /\ built["b"].idx = 1 .. 63

\* the indices tried as arguments of Set on a bitmap
Tried(this) ==
    SetInputs \cup BuildInputs["a"]
        \cup {this.sizeInBits - 1, this.sizeInBits, MaxInt32 - wordInBits}

\* C2: Set(i) with i < 0, i > MaxInt32-64 or i < Size() returns nil and leaves
\* the bitmap as it was (size, words, buffer, RLW position, hence cardinality);
\* every other Set(i) is accepted and leaves Size() = i + 1
C2_SetRefusal ==
    \A i \in Tried(a) :
        LET asClaimed(r) ==
                IF i < 0 \/ i > MaxInt32 - wordInBits \/ i < a.sizeInBits
                THEN ~r.ret /\ r.bm = a /\ CardinalityOf(r.bm) = CardinalityOf(a)
                ELSE r.ret /\ r.bm.sizeInBits = i + 1
        IN  asClaimed(Set(a, i))

C2_Witness ==
    /\ obs.op = "Set"
    /\ obs.ret = "nil"
    /\ obs.i = 63
    /\ a.sizeInBits = 129

\* the result of a merge that ran to its end, untouched since
result(op) == c.op = op /\ ~c.neg /\ prev.t # "c"

\* C3: c = a.And(b) has Size() = max(a.Size(), b.Size()) and holds at every
\* index below it the conjunction of the operands' bits
C3_And ==
    result("And") =>
        /\ c.bm.sizeInBits = Max(a.sizeInBits, b.sizeInBits)
        /\ \A i \in Indices(c.bm) : Get(c.bm, i) <=> (Bit(a, i) /\ Bit(b, i))

\* C4: c = a.Or(b) has Size() = max(a.Size(), b.Size()) and holds at every
\* index below it the disjunction of the operands' bits
C4_Or ==
    result("Or") =>
        /\ c.bm.sizeInBits = Max(a.sizeInBits, b.sizeInBits)
        /\ \A i \in Indices(c.bm) : Get(c.bm, i) <=> (Bit(a, i) \/ Bit(b, i))

\* C5: c = a.Xor(b) has Size() = max(a.Size(), b.Size()) and holds at every
\* index below it the exclusive or of the operands' bits
C5_Xor ==
    result("Xor") =>
        /\ c.bm.sizeInBits = Max(a.sizeInBits, b.sizeInBits)
        /\ \A i \in Indices(c.bm) : Get(c.bm, i) <=> (Bit(a, i) # Bit(b, i))

\* C6: c = a.AndNot(b) has Size() = max(a.Size(), b.Size()) and holds at every
\* index below max(a.Size(), b.Size()) the bit of a and not of b
C6_AndNot ==
    result("AndNot") =>
        /\ c.bm.sizeInBits = Max(a.sizeInBits, b.sizeInBits)
        /\ \A i \in 0 .. (Max(a.sizeInBits, b.sizeInBits) - 1) :
              Bit(c.bm, i) <=> (Bit(a, i) /\ ~Bit(b, i))

\* Cardinality() agrees with Get on a bitmap
counted(this) == CardinalityOf(this) = Cardinality(SetBits(this))

\* C7: on every bitmap the client holds Cardinality() is the number of
\* indices below Size() at which Get is true
C7_Cardinality ==
    /\ counted(a)
    /\ counted(b)
    /\ (c.op # "none" /\ ~c.neg) => counted(c.bm)

\* Not() ran to its end
returnedFromNot == ~(obs.op = "Not" /\ obs.ret = "panic")

\* C8: Not() on a bitmap built by Set calls keeps Size(), flips Get at every
\* index below Size(), and leaves Cardinality() = Size() - Cardinality() before
C8_Not ==
    (prev.t = "a" /\ prev.n = 1 /\ prev.pure) =>
        /\ returnedFromNot
        /\ a.sizeInBits = prev.bm.sizeInBits
        /\ \A i \in Indices(a) : Get(a, i) <=> ~Get(prev.bm, i)
        /\ CardinalityOf(a) = a.sizeInBits - CardinalityOf(prev.bm)

C8_Witness ==
    /\ prev.t = "a" /\ prev.n = 1 /\ prev.pure
    /\ prev.bm.sizeInBits = 129
    /\ SetBits(prev.bm) = (0 .. 63) \cup {128}
    /\ SetBits(a) = 64 .. 127

\* two bitmaps a client cannot tell apart
same(x, y) ==
    /\ x.sizeInBits = y.sizeInBits
    /\ x.actualSizeInWords = y.actualSizeInWords
    /\ CardinalityOf(x) = CardinalityOf(y)
    /\ \A i \in Indices(x) : Get(x, i) <=> Get(y, i)

\* C9: b.Not().Not() is b again (Size, SizeInWords, Cardinality and every
\* Get below Size()), for the results of the four operators too
C9_NotNot ==
    (prev.t = "c" /\ prev.n = 2) => (returnedFromNot /\ same(c.bm, prev.bm))

\* the same on the bitmaps Set, Not and Reset make
NotNotOnBuilt ==
    (prev.t = "a" /\ prev.n = 2) => (returnedFromNot /\ same(a, prev.bm))

\* the indices Get is tried with outside a bitmap
Outside(this) == {-1, this.sizeInBits, this.sizeInBits + 1, this.sizeInBits + wordInBits}

\* C10: Get(i) with i < 0 or i >= Size() returns false and reads no buffer
\* position at or beyond SizeInWords()
C10_GetOutOfRange ==
    \A i \in Outside(a) :
        /\ GetRun(a, i).ret = "false"
        /\ GetRun(a, i).reads \subseteq 0 .. (a.actualSizeInWords - 1)

\* what Get(i) returns for the indices below Size() and around it
answers(x, y) ==
    \A i \in Indices(y) \cup Outside(y) : GetRun(x, i).ret = GetRun(y, i).ret

\* C11: b.Clone() and x.Copy(b) have the Size, SizeInWords, Cardinality and
\* the Get(i) for every i of b, and the current RLW at the marker position of b's
C11_CloneCopy ==
    c.op \in {"Clone", "Copy"} =>
        /\ same(c.bm, a)
        /\ c.bm.p = a.p
        /\ answers(c.bm, a)

\* the same with Get compared below Size() only
CloneCopyBelowSize == c.op \in {"Clone", "Copy"} => (same(c.bm, a) /\ c.bm.p = a.p)

\* C12: b.Copy(b) leaves b with the Size, SizeInWords, Cardinality and the
\* Get(i) for every i below Size() it had before the call
C12_SelfCopy == [][obs'.op = "CopySelf" => same(a', a)]_vars

atLastMarker(x) ==
    ClampAdd(x.p + 1, getNumberOfLiteralWords(At(x.buffer, x.p)))
        = x.actualSizeInWords

\* x has what y had: Size, SizeInWords, Cardinality, Get at every index, and
\* the current RLW where y's was
took(x, y) ==
    /\ same(x, y)
    /\ answers(x, y)
    /\ x.p = y.p
    /\ atLastMarker(y) => atLastMarker(x)

\* C15: a.Swap(b) gives a what b had and b what a had (Size, SizeInWords,
\* Cardinality, Get at every index), each current RLW is at the last marker
\* of the buffer its bitmap now has, and a second Swap restores both
C15_Swap ==
    [][obs'.op = "Swap" =>
          /\ took(a', b)
          /\ took(b', a)
          /\ Swap(a', b') = [this |-> a, other |-> b]]_vars

\* a Swap has exchanged two bitmaps of different length, both well formed
C15_Witness ==
    /\ obs.op = "Swap"
    /\ a.sizeInBits > 0
    /\ b.sizeInBits > a.sizeInBits
    /\ a.p # b.p
    /\ atLastMarker(a)
    /\ atLastMarker(b)

RECURSIVE walk(_, _, _)
walk(x, q, words) ==
    IF ~(q < x.actualSizeInWords) \/ ~InBuffer(x.buffer, q)
    THEN [words |-> words, end |-> q]
    ELSE LET step(w) == walk(x, ClampAdd(q + 1, getNumberOfLiteralWords(w)),
                             ClampAdd(words, rlwSize(w)))
         IN  step(At(x.buffer, q))

\* 0 <= 64 * (sum of runningLength + numberOfLiteralWords) - sizeInBits < 64
lengthFits(x) ==
    LET fits(n) ==
            /\ n <= MaxModelInt \div wordInBits
            /\ wordInBits * n - x.sizeInBits \in 0 .. (wordInBits - 1)
    IN  fits(walk(x, 0, 0).words)

\* the bitmaps the client holds
held == {a, b} \cup (IF c.op # "none" /\ ~c.neg THEN {c.bm} ELSE {})

\* C17: after every public operation and for every result of And, Or, Xor and
\* AndNot the logical length of the segments matches the size in bits:
\* 0 <= 64 * sum of (runningLength + numberOfLiteralWords) - sizeInBits < 64
C17_LogicalLength == \A x \in held : lengthFits(x)

\* the layout of x: the populated words fit the buffer, the segments tile
\* them, and the current RLW is the last marker
wellFormed(x) ==
    /\ x.actualSizeInWords <= Len(x.buffer)
    /\ walk(x, 0, 0).end = x.actualSizeInWords
    /\ atLastMarker(x)

\* C18: in every reachable state actualSizeInWords <= len(buffer), the markers
\* walked from index 0 by steps of 1 + numberOfLiteralWords land exactly on
\* actualSizeInWords, and the current RLW is at the index p of the last marker:
\* p + 1 + numberOfLiteralWords(p) = actualSizeInWords
C18_Layout == \A x \in held : wellFormed(x)

\* n copies of the word w
RECURSIVE Fill(_, _)
Fill(n, w) == IF n <= 0 THEN <<>> ELSE Append(Fill(n - 1, w), w)

\* the logical expansion of x from the marker at q on: per segment the run
\* words, then the literal words
RECURSIVE expandFrom(_, _)
expandFrom(x, q) ==
    IF ~(q < x.actualSizeInWords) THEN <<>>
    ELSE LET segment(w) ==
                 Fill(getRunningLength(w),
                      IF getRunningBit(w) THEN AllOnes ELSE ZeroWord)
                   \o SubSeq(x.buffer, q + 2, q + 1 + getNumberOfLiteralWords(w))
                   \o expandFrom(x, q + 1 + getNumberOfLiteralWords(w))
         IN  segment(At(x.buffer, q))

expansion(x) == expandFrom(x, 0)

\* the bitmaps held whose expansion is short enough to write out
sinks == {x \in held : wellFormed(x) /\ walk(x, 0, 0).words < MaxExpansion}

\* the words handed to add
AddInputs == {ZeroWord, AllOnes, NotOne, {0}, {63}, 0 .. 62}

\* C19: add(w) extends the logical expansion by exactly the word w and
\* sizeInBits by 64; the all-zeros word goes to addEmptyWord(false), the
\* all-ones word to addEmptyWord(true), every other word to addLiteralWord
C19_Add ==
    \A x \in sinks : \A w \in AddInputs :
        LET grown == [x EXCEPT !.sizeInBits = @ + wordInBits]
            asClaimed(r) ==
                /\ expansion(r) = Append(expansion(x), w)
                /\ r.sizeInBits = x.sizeInBits + wordInBits
                /\ r = IF w = ZeroWord THEN addEmptyWord(grown, FALSE)
                       ELSE IF w = AllOnes THEN addEmptyWord(grown, TRUE)
                       ELSE addLiteralWord(grown, w)
        IN  asClaimed(add(x, w))

\* the same for every word but the two the code routes otherwise than claimed
AddOtherWords ==
    \A x \in sinks : \A w \in AddInputs \ {AllOnes, NotOne} :
        LET grown == [x EXCEPT !.sizeInBits = @ + wordInBits]
            asClaimed(r) ==
                /\ expansion(r) = Append(expansion(x), w)
                /\ r.sizeInBits = x.sizeInBits + wordInBits
                /\ r = IF w = ZeroWord THEN addEmptyWord(grown, FALSE)
                       ELSE addLiteralWord(grown, w)
        IN  asClaimed(add(x, w))

\* the logical words an iterator has yet to give: the working copy's run and
\* literal words, then the segments from its pointer on
rest(it) ==
    Fill(it.rl, IF it.rb THEN AllOnes ELSE ZeroWord)
      \o SubSeq(it.buffer, it.lit + 1, it.lit + it.nl)
      \o expandFrom([buffer |-> it.buffer, actualSizeInWords |-> it.L], it.pointer)

\* the first n words of ws, zero words added when ws is shorter
padded(ws, n) == SubSeq(ws, 1, Min(n, Len(ws))) \o Fill(n - Len(ws), ZeroWord)

\* ws without its first n words
beyond(ws, n) == SubSeq(ws, n + 1, Len(ws))

\* one running-portion step of the AND merge from M to M1, as claimed: the
\* sink gets the prey's next n words (predator's bit 1) or n zero words
\* (bit 0), n the predator's running length, and both iterators stand n
\* words further
stepAsClaimed(M, M1) ==
    LET asClaimed(n, given) ==
            /\ ~M1.neg
            /\ expansion(M1.c) = expansion(M.c) \o given
            /\ rest(M1.i) = beyond(rest(M.i), n)
            /\ rest(M1.j) = beyond(rest(M.j), n)
    IN  asClaimed(predator(M).rl,
                  IF predator(M).rb THEN padded(rest(prey(M)), predator(M).rl)
                  ELSE Fill(predator(M).rl, ZeroWord))

\* the steps of one running portion, all of them or those with bit 0 only
RECURSIVE runStepsAsClaimed(_, _)
runStepsAsClaimed(M, zeroOnly) ==
    IF ~M.neg /\ (M.i.rl > 0 \/ M.j.rl > 0)
    THEN LET then(M1) ==
                 /\ (zeroOnly /\ predator(M).rb) \/ stepAsClaimed(M, M1)
                 /\ runStepsAsClaimed(M1, zeroOnly)
         IN  then(andRunStep(M))
    ELSE TRUE

\* and of every running portion of the merge
RECURSIVE mergeAsClaimed(_, _)
mergeAsClaimed(M, zeroOnly) ==
    IF ~M.neg /\ itSize(M.i) > 0 /\ itSize(M.j) > 0
    THEN /\ runStepsAsClaimed(M, zeroOnly)
         /\ mergeAsClaimed(literalStep("And", runLoop("And", M)), zeroOnly)
    ELSE TRUE

\* C20: in a.And(b), in each running-portion step: predator's running bit 1,
\* the sink receives the prey's next predator.runningLength logical words
\* verbatim (zero words once the prey runs dry); bit 0, it receives that many
\* zero words; both iterators then stand that many words further, and no
\* negative count is handed to the sink
C20_AndRunStep == mergeAsClaimed(startMerge(b, a, newContainer(a, b)), FALSE)

\* the same for the steps where the predator's running bit is 0
AndZeroRunSteps == mergeAsClaimed(startMerge(b, a, newContainer(a, b)), TRUE)

\* the sink after add of each word of ws in turn
RECURSIVE feed(_, _)
feed(sink, ws) == IF ws = <<>> THEN sink ELSE feed(add(sink, Head(ws)), Tail(ws))

\* the words of ws negated
negated(ws) == [k \in DOMAIN ws |-> AllOnes \ ws[k]]

\* the words a running-portion step of this.AndNot(a) owes the sink, rlwi over
\* this: as the claim states them (zero words whenever the prey is this; else
\* the prey's words, negated when the predator's bit is 1) ...
wordsAsStated(M) ==
    LET cell(n, S) ==
            IF iIsPrey(M) THEN Fill(n, ZeroWord)
            ELSE IF predator(M).rb THEN negated(S) ELSE S
    IN  cell(predator(M).rl, padded(rest(prey(M)), predator(M).rl))

\* ... and with the two cells of running bit 0 exchanged: bit 0, the prey's
\* words when the prey is this, zero words when it is a; bit 1, zero words
\* when the prey is this, the prey's words negated when it is a
wordsExchanged(M) ==
    LET cell(n, S) ==
            IF predator(M).rb
            THEN (IF iIsPrey(M) THEN Fill(n, ZeroWord) ELSE negated(S))
            ELSE (IF iIsPrey(M) THEN S ELSE Fill(n, ZeroWord))
    IN  cell(predator(M).rl, padded(rest(prey(M)), predator(M).rl))

\* the step from M to M1 handed the sink the words ws, one add each
handed(M, M1, ws) ==
    /\ ~M1.neg
    /\ expansion(M1.c) = expansion(feed(M.c, ws))

\* the steps of one running portion of an AND-NOT merge
RECURSIVE andNotSteps(_, _)
andNotSteps(M, stated) ==
    IF ~M.neg /\ (M.i.rl > 0 \/ M.j.rl > 0)
    THEN LET then(M1) ==
                 /\ handed(M, M1, IF stated THEN wordsAsStated(M)
                                  ELSE wordsExchanged(M))
                 /\ andNotSteps(M1, stated)
         IN  then(andNotRunStep(M))
    ELSE TRUE

\* and of every running portion of the merge
RECURSIVE andNotMerge(_, _)
andNotMerge(M, stated) ==
    IF ~M.neg /\ itSize(M.i) > 0 /\ itSize(M.j) > 0
    THEN /\ andNotSteps(M, stated)
         /\ andNotMerge(literalStep("AndNot", runLoop("AndNot", M)), stated)
    ELSE TRUE

partialZeroRun(x) ==
    /\ wellFormed(x)
    /\ lengthFits(x)
    /\ x.sizeInBits % wordInBits # 0
    /\ getNumberOfLiteralWords(rlw(x)) = 0
    /\ getRunningLength(rlw(x)) > 0
    /\ ~getRunningBit(rlw(x))

\* C22: Not() on a bitmap whose final segment has no literal words and whose
\* Size() is not a multiple of 64, the final run becoming a run of ones:
\* the running length is decremented by one, one literal word is appended
\* with the low Size() mod 64 bits set, numberOfLiteralWords of the final
\* segment becomes 1, and Cardinality() is Size() minus what it was
C22_NotPartialRun ==
    \A x \in held :
        partialZeroRun(x) =>
            LET asClaimed(r, m) ==
                    /\ ~r.panic
                    /\ r.bm.sizeInBits = x.sizeInBits
                    /\ getRunningBit(m)
                    /\ getRunningLength(m) = getRunningLength(rlw(x)) - 1
                    /\ getNumberOfLiteralWords(m) = 1
                    /\ r.bm.actualSizeInWords = x.actualSizeInWords + 1
                    /\ At(r.bm.buffer, x.p + 1) = lowBits(x.sizeInBits % wordInBits)
                    /\ CardinalityOf(r.bm) = x.sizeInBits - CardinalityOf(x)
            IN  asClaimed(Not(x), At(Not(x).bm.buffer, x.p))

\* x with the numberOfLiteralWords field of its current RLW at the largest
\* count, as line 294 of Not() leaves it
full(x) == withRlw(x, setNumberOfLiteralWords(rlw(x), LargestLiteralCount))

\* addLiteralWord(w) on y below the largest count: one more literal word
\* under the current RLW
counted1(y, w, r) ==
    /\ r.actualSizeInWords = y.actualSizeInWords + 1
    /\ r.p = y.p
    /\ getNumberOfLiteralWords(rlw(r)) = getNumberOfLiteralWords(rlw(y)) + 1
    /\ At(r.buffer, y.actualSizeInWords) = w

\* addLiteralWord(w) on y at the largest count: a new marker with one literal
\* word, w, and the old marker as it was
opened(y, w, r) ==
    /\ r.actualSizeInWords = y.actualSizeInWords + 2
    /\ r.p = y.actualSizeInWords
    /\ getNumberOfLiteralWords(rlw(r)) = 1
    /\ At(r.buffer, y.actualSizeInWords + 1) = w
    /\ At(r.buffer, y.p) = rlw(y)

\* C23: addLiteralWord(w) with numberOfLiteralWords = LargestLiteralCount on
\* the current RLW pushes one zero marker, makes it the current RLW with
\* numberOfLiteralWords = 1 and appends w once (actualSizeInWords + 2);
\* otherwise it increments numberOfLiteralWords and actualSizeInWords by one
C23_AddLiteralWord ==
    \A x \in {h \in held : wellFormed(h)} : \A w \in AddInputs :
        /\ opened(full(x), w, addLiteralWord(full(x), w))
        /\ counted1(x, w, addLiteralWord(x, w))

\* the second half alone: below the largest count
AddLiteralBelowLimit ==
    \A x \in {h \in held : wellFormed(h)} : \A w \in AddInputs :
        counted1(x, w, addLiteralWord(x, w))

\* the arguments of addStreamOfEmptyWords
StreamInputs == {1, 2, 3}

\* x with the running length of its current RLW two short of 2^31: less than
\* 2^31 below LargestRunningLengthCount = 2^32 - 1
longRun(x) == withRlw(x, setRunningLength(rlw(x), MaxModelInt - 1))

\* the current segment of x cannot take words of value v: a fresh marker is
\* pushed before any word is counted
opensSegment(x, v) ==
    /\ ~(getRunningBit(rlw(x)) # v /\ rlwSize(rlw(x)) = 0)
    /\ getNumberOfLiteralWords(rlw(x)) # 0 \/ getRunningBit(rlw(x)) # v

\* r is x after a stream of n words of value v, n no more than the current
\* segment has room for up to LargestRunningLengthCount: the segment, made
\* compatible with v, took them all
absorbed(x, v, n, r) ==
    LET taken(before) ==
            /\ r.actualSizeInWords = x.actualSizeInWords + (IF opensSegment(x, v) THEN 1 ELSE 0)
            /\ getRunningBit(rlw(r)) = v
            /\ getRunningLength(rlw(r)) = ClampAdd(before, n)
    IN  taken(IF opensSegment(x, v) THEN 0 ELSE getRunningLength(rlw(x)))

\* the logical expansion of r is that of x and n more words of value v
streamed(x, v, n, r) ==
    expansion(r) = expansion(x) \o Fill(n, IF v THEN AllOnes ELSE ZeroWord)

AddStreamShortRuns ==
    \A v \in BOOLEAN : \A n \in StreamInputs : \A x \in sinks :
        /\ absorbed(x, v, n, addStreamOfEmptyWords(x, v, n))
        /\ streamed(x, v, n, addStreamOfEmptyWords(x, v, n))
        /\ addStreamOfEmptyWords(x, v, n).sizeInBits = x.sizeInBits + wordInBits * n
        /\ fastAddStreamOfEmptyWords(x, v, n)
             = [addStreamOfEmptyWords(x, v, n) EXCEPT !.sizeInBits = x.sizeInBits]

\* the step is one call a.Set(i) that returned the bitmap
setStep(i) ==
    /\ Set(a, i).ret
    /\ a' = Set(a, i).bm
    /\ built'["a"].idx = built["a"].idx \cup {i}
    /\ obs' = NoObs

\* Set(i) on x fills the only literal word of the last segment to all ones,
\* and the run of that segment can take the word: it is empty or of ones
foldsIntoRun(x, i) ==
    /\ WordOf(i + wordInBits) = WordOf(x.sizeInBits + wordInBits - 1)
    /\ getNumberOfLiteralWords(rlw(x)) = 1
    /\ x.buffer[x.actualSizeInWords] \cup {i % wordInBits} = AllOnes
    /\ getRunningLength(rlw(x)) = 0 \/ getRunningBit(rlw(x))
    /\ ~isLargestRunningLength(rlw(x))

observe(x, P) ==
    [Size |-> x.sizeInBits,
     SizeInWords |-> x.actualSizeInWords,
     Cardinality |-> CardinalityOf(x),
     Get |-> [i \in P |-> GetRun(x, i).ret],
     Set |-> [i \in SetInputs |-> Set(x, i).ret],
     Not |-> Not(x).panic]

\* C13: after Reset() Size() = 0, SizeInWords() = 1, Cardinality() = 0, and
\* every further sequence of Set, Get, Cardinality and Not calls returns what
\* the same sequence returns on New(), whatever the buffer held before
C13_Reset ==
    twinned =>
        /\ obs.op = "Reset" =>
               (a.sizeInBits = 0 /\ a.actualSizeInWords = 1 /\ CardinalityOf(a) = 0)
        /\ observe(a, Indices(a) \cup GetInputs(a)) = observe(b, Indices(a) \cup GetInputs(a))

\* the same with Get asked below Size() and beyond it, but not at Size()
ResetBelowSize ==
    twinned =>
        observe(a, Indices(a) \cup {-1, a.sizeInBits + 1})
            = observe(b, Indices(a) \cup {-1, a.sizeInBits + 1})

====
